---- MODULE Spec2Model ----
(***************************************************************************)
(* Model of rtsp-to-kvs (src/main.rs): assembly of the GStreamer pipeline, *)
(* the pad-added handler registered on the RTSP source, and the bus loop   *)
(* of main.  The main thread is cut into one step per fallible call; the   *)
(* pad-added closure runs on runtime threads, one invocation per new pad,  *)
(* cut at its reads and writes of the shared sink pad.                     *)
(***************************************************************************)
EXTENDS Integers, Sequences, FiniteSets, TLC

VARIABLES
    args,         \* Cli: command, rtsp_config, kvs_config (read-only)
    envv,         \* process environment: variable name -> value or None
    pc,           \* position of the main thread in main()
    exitCode,     \* process exit code, NoExit while the process runs
    failure,      \* which `?` / expect ended the process, "none" otherwise
    created,      \* instance names of the elements made by create_element
    props,        \* properties set: {<<element, key, value>>}
    added,        \* elements that are members of the pipeline
    links,        \* static links made by link_many: {<<upstream, downstream>>}
    handlerRegs,  \* number of connect_pad_added registrations on the source
    stateReqs,    \* set_state requests so far: Seq([target, ok])
    pipeState,    \* lifecycle state the pipeline was last successfully asked for
    bus,          \* messages posted to the bus and not yet popped
    posted,       \* number of messages posted so far
    consumed,     \* messages the loop of main has popped, in order
    loopEnd,      \* why the for loop ended: "none", "error", "eos", "closed"
    hpc,          \* pad -> position of the handler invocation for that pad
    hseen,        \* pad -> number of invocations finished when this one began
    caps,         \* pad -> current caps of the pad
    sinkPeer,     \* producing pads linked to rtph264depay's sink pad
    calls,        \* finished handler invocations: Seq([pad, caps, seen, outcome])
    log,          \* log lines of the main thread, in order: Seq([level, text, ctx])
    hlog          \* pad -> log lines of the handler invocation for that pad

vars == <<args, envv, pc, exitCode, failure, created, props, added, links,
          handlerRegs, stateReqs, pipeState, bus, posted, consumed, loopEnd,
          hpc, hseen, caps, sinkPeer, calls, log, hlog>>

buildVars   == <<created, props, added, links>>
runVars     == <<bus, posted, consumed, loopEnd>>
handlerVars == <<hpc, hseen, caps, sinkPeer, calls, hlog>>

----------------------------------------------------------------------------
(* Bounds of the model *)

\* messages the runtime posts to the bus in one run
MaxPosted == 2
\* pads the source exposes in one run (one handler invocation each)
MaxPads == 2
\* runtime events (messages posted and pads exposed) in one run
MaxEvents == 3

----------------------------------------------------------------------------
(* Values *)

None == "<none>"
NoExit == -1

\* Option<String> command-line values
OptStr == {None, "cli"}

EnvNames == {"RTSP_URL", "RTSP_USER_ID", "RSTP_USER_PW",
             "AWS_ACCESS_KEY", "AWS_SECRET_ACCESS_KEY", "KVS_STREAM_NAME"}

\* environments drawn: nothing set, or every variable set
Envs == { [n \in EnvNames |-> None], [n \in EnvNames |-> "env"] }

RtspConfigs ==
    { [url |-> c, user_id |-> c, password |-> c] : c \in OptStr }

KvsConfigs(k) ==
    { [aws_access_key_id |-> k, aws_secret_key |-> k, stream_name |-> s,
       aws_region |-> k] : s \in OptStr }

NoKvs == [aws_access_key_id |-> None, aws_secret_key |-> None,
          stream_name |-> None, aws_region |-> None]

Clis ==
    { [command |-> "PlayBack", rtsp_config |-> rc, kvs_config |-> NoKvs] :
        rc \in RtspConfigs }
    \cup
    UNION { { [command |-> "Kvs", rtsp_config |-> rc, kvs_config |-> kc] :
                kc \in KvsConfigs(rc.url) } : rc \in RtspConfigs }

PipelineName == "rtsp-to-kvs-pipeline"

Pads == 1..MaxPads

\* current caps of a new pad: none yet, or fixed caps (one structure) with a
\* name and possibly a "media" field
NoCaps == [present |-> FALSE, structs |-> 0, name |-> None, media |-> None]
Caps(n, m) == [present |-> TRUE, structs |-> 1, name |-> n, media |-> m]
PadCaps ==
    { NoCaps,
      Caps("application/x-rtp", "video"),
      Caps("application/x-rtp", "audio"),
      Caps("application/x-rtp", None),
      Caps("video/x-raw", "video") }

\* bus messages drawn
Messages ==
    { [kind |-> "Error",   src |-> "source", debug |-> "dbg"],
      [kind |-> "Warning", src |-> None,     debug |-> None],
      [kind |-> "Info",    src |-> "source", debug |-> None],
      [kind |-> "Eos",     src |-> "source", debug |-> None],
      [kind |-> "StateChanged", src |-> "source", debug |-> None] }

----------------------------------------------------------------------------
(* Pure helpers *)

\* Option::ok_or_else: Some(v) -> Ok(v), None -> Err(f())
OkOrElse(opt, err) ==
    IF opt # None THEN [ok |-> TRUE, val |-> opt]
                  ELSE [ok |-> FALSE, val |-> err]

\* env::var(name)
EnvVar(name) == envv[name]

\* GstObject::path_string of an element of the pipeline
PathString(name) == <<PipelineName, name>>

\* src_pad.name()
PadName(p) == ToString(p)

Line(level, text, ctx) == [level |-> level, text |-> text, ctx |-> ctx]

\* (variant: the source element of the message is never named)
gst_log_NoElement(level, m) ==
    << Line(level, "unknown element", <<>>) >>
    \o
    (IF m.debug # None THEN << Line("debug", m.debug, <<>>) >> ELSE << >>)

\* gst_log!(level obj)
gst_log(level, m) ==
    (IF m.src # None
        THEN << Line(level, "element", PathString(m.src)) >>
        ELSE << Line(level, "unknown element", <<>>) >>)
    \o
    (IF m.debug # None THEN << Line("debug", m.debug, <<>>) >> ELSE << >>)

\* exit code of the process when main returns
MainExit(ok) == IF ok THEN 0 ELSE 1

Alive == exitCode = NoExit

----------------------------------------------------------------------------
Init ==
    /\ args \in Clis
    /\ envv \in Envs
    /\ pc = "gst_init"
    /\ exitCode = NoExit
    /\ failure = "none"
    /\ created = {}
    /\ props = {}
    /\ added = {}
    /\ links = {}
    /\ handlerRegs = 0
    /\ stateReqs = << >>
    /\ pipeState = "Null"
    /\ bus = << >>
    /\ posted = 0
    /\ consumed = << >>
    /\ loopEnd = "none"
    /\ hpc = [p \in Pads |-> "none"]
    /\ hseen = [p \in Pads |-> 0]
    /\ caps = [p \in Pads |-> NoCaps]
    /\ sinkPeer = {}
    /\ calls = << >>
    /\ log = << >>
    /\ hlog = [p \in Pads |-> << >>]

----------------------------------------------------------------------------
(* Startup: main() up to the bus loop *)

\* main returns Err(..) through a `?`
Fail(why) ==
    /\ pc' = "exited"
    /\ exitCode' = MainExit(FALSE)
    /\ failure' = why

Goto(next) ==
    /\ pc' = next
    /\ UNCHANGED <<exitCode, failure>>

othersStartup ==
    <<args, envv, handlerRegs, stateReqs, pipeState, runVars, handlerVars, log>>

\* gst::init()?
GstInit ==
    /\ pc = "gst_init"
    /\ \E ok \in BOOLEAN : IF ok THEN Goto("src_create") ELSE Fail("gst_init")
    /\ UNCHANGED <<buildVars, othersStartup>>

\* (variant: a failed creation is swallowed and main goes on without the element)
create_element_Swallow(at, name, next) ==
    /\ pc = at
    /\ \E ok \in BOOLEAN :
         /\ created' = IF ok THEN created \cup {name} ELSE created
         /\ Goto(next)
    /\ UNCHANGED <<props, added, links, othersStartup>>

\* create_element(factoryname, name)?
create_element(at, name, next) ==
    /\ pc = at
    /\ \E ok \in BOOLEAN :
         IF ok THEN created' = created \cup {name} /\ Goto(next)
               ELSE created' = created /\ Fail("create")
    /\ UNCHANGED <<props, added, links, othersStartup>>

\* if let Ok(v) = opt.as_ref().ok_or_else(|| env::var(NAME)) { e.try_set_property(key, v)?; }
set_if_ok(at, opt, envname, elem, key, next) ==
    /\ pc = at
    /\ LET r == OkOrElse(opt, EnvVar(envname)) IN
         IF r.ok
            THEN \E ok \in BOOLEAN :
                   IF ok THEN props' = props \cup {<<elem, key, r.val>>} /\ Goto(next)
                         ELSE props' = props /\ Fail("property")
            ELSE props' = props /\ Goto(next)
    /\ UNCHANGED <<created, added, links, othersStartup>>

\* (variant: the result of add_many is dropped and main goes on)
add_many_Unchecked(at, elems, next) ==
    /\ pc = at
    /\ \E k \in 0..Len(elems) : added' = added \cup { elems[i] : i \in 1..k }
    /\ Goto(next)
    /\ UNCHANGED <<created, props, links, othersStartup>>

\* pipeline.add_many(elems)?  (a failing batch may leave a prefix added)
add_many(at, elems, next) ==
    /\ pc = at
    /\ \E k \in 0..Len(elems) :
         /\ added' = added \cup { elems[i] : i \in 1..k }
         /\ IF k = Len(elems) THEN Goto(next) ELSE Fail("add_many")
    /\ UNCHANGED <<created, props, links, othersStartup>>

\* gst::Element::link_many(elems)?  (links made before the failing pair stay)
link_many(at, elems, next) ==
    /\ pc = at
    /\ \E k \in 0..(Len(elems) - 1) :
         /\ links' = links \cup { <<elems[i], elems[i + 1]>> : i \in 1..k }
         /\ IF k = Len(elems) - 1 THEN Goto(next) ELSE Fail("link_many")
    /\ UNCHANGED <<created, props, added, othersStartup>>

SrcCreate == create_element("src_create", "source", "src_url")
SrcUrl ==
    set_if_ok("src_url", args.rtsp_config.url, "RTSP_URL", "source", "url", "src_user")
SrcUserId ==
    set_if_ok("src_user", args.rtsp_config.user_id, "RTSP_USER_ID", "source",
              "user-id", "src_pw")
SrcPassword ==
    set_if_ok("src_pw", args.rtsp_config.password, "RSTP_USER_PW", "source",
              "user-pw", "depay_create")

\* (variant: the closure is registered before the sink strategy has run)
DepayCreate_SkipSetup == create_element("depay_create", "rtph264depay", "connect")

\* let rtph264depay = create_element(..)?; match args.command { .. }
DepayCreate ==
    create_element("depay_create", "rtph264depay",
                   IF args.command = "PlayBack" THEN "pb_parse" ELSE "kvs_parse")

PbParse   == create_element("pb_parse", "h264parse", "pb_dec")
PbDecoder == create_element("pb_dec", "avdec_h264", "pb_conv")
PbConvert == create_element("pb_conv", "videoconvert", "pb_sink")
PbSink    == create_element("pb_sink", "videosink", "pb_add")
PlaybackChain == <<"rtph264depay", "h264parse", "avdec_h264", "videoconvert", "videosink">>
PbAdd  == add_many("pb_add", <<"source">> \o PlaybackChain, "pb_link")
PbLink == link_many("pb_link", PlaybackChain, "connect")

KvsParse  == create_element("kvs_parse", "h264parse", "kvs_sink")
KvsSink   == create_element("kvs_sink", "kvssink", "kvs_access")
KvsAccessKey ==
    set_if_ok("kvs_access", args.kvs_config.aws_access_key_id, "AWS_ACCESS_KEY",
              "kvssink", "access-key", "kvs_secret")
KvsSecretKey ==
    set_if_ok("kvs_secret", args.kvs_config.aws_secret_key, "AWS_SECRET_ACCESS_KEY",
              "kvssink", "secret-key", "kvs_name")

\* (variant: the stream name is looked up only after the stages were added)
KvsStreamName_AfterAdd ==
    /\ pc = "kvs_name"
    /\ LET r == OkOrElse(args.kvs_config.stream_name, EnvVar("KVS_STREAM_NAME")) IN
         IF r.ok
            THEN /\ added' = added
                 /\ \E ok \in BOOLEAN :
                      IF ok THEN props' = props \cup {<<"kvssink", "stream-name", r.val>>}
                                 /\ Goto("kvs_region")
                            ELSE props' = props /\ Fail("property")
            ELSE /\ added' = {"source", "rtph264depay", "h264parse", "kvssink"}
                 /\ props' = props
                 /\ Fail("missing_stream_name")
    /\ UNCHANGED <<created, links, othersStartup>>

\* let stream_name = ..ok_or_else(|| env::var("KVS_STREAM_NAME")).map_err(..)?;
\* kvssink.try_set_property("stream-name", stream_name)?;
KvsStreamName ==
    /\ pc = "kvs_name"
    /\ LET r == OkOrElse(args.kvs_config.stream_name, EnvVar("KVS_STREAM_NAME")) IN
         IF r.ok
            THEN \E ok \in BOOLEAN :
                   IF ok THEN props' = props \cup {<<"kvssink", "stream-name", r.val>>}
                              /\ Goto("kvs_region")
                         ELSE props' = props /\ Fail("property")
            ELSE props' = props /\ Fail("missing_stream_name")
    /\ UNCHANGED <<created, added, links, othersStartup>>

\* if let Some(ref aws_region) = kvs_config.aws_region { .. }
KvsRegion ==
    /\ pc = "kvs_region"
    /\ IF args.kvs_config.aws_region # None
          THEN \E ok \in BOOLEAN :
                 IF ok THEN props' = props \cup
                                {<<"kvssink", "aws-region", args.kvs_config.aws_region>>}
                            /\ Goto("kvs_add")
                       ELSE props' = props /\ Fail("property")
          ELSE props' = props /\ Goto("kvs_add")
    /\ UNCHANGED <<created, added, links, othersStartup>>

KvsChain == <<"rtph264depay", "h264parse", "kvssink">>
KvsAdd  == add_many("kvs_add", <<"source">> \o KvsChain, "kvs_link")
KvsLink == link_many("kvs_link", KvsChain, "connect")

\* rtsp_source.connect_pad_added(move |src, src_pad| { .. });
ConnectPadAdded ==
    /\ pc = "connect"
    /\ handlerRegs' = handlerRegs + 1
    /\ Goto("play")
    /\ UNCHANGED <<args, envv, buildVars, stateReqs, pipeState, runVars, handlerVars, log>>

Startup ==
    \/ GstInit
    \/ SrcCreate \/ SrcUrl \/ SrcUserId \/ SrcPassword \/ DepayCreate
    \/ PbParse \/ PbDecoder \/ PbConvert \/ PbSink \/ PbAdd \/ PbLink
    \/ KvsParse \/ KvsSink \/ KvsAccessKey \/ KvsSecretKey \/ KvsStreamName
    \/ KvsRegion \/ KvsAdd \/ KvsLink
    \/ ConnectPadAdded

----------------------------------------------------------------------------
(* Lifecycle requests and the bus loop of main() *)

Req(target, ok) == [target |-> target, ok |-> ok]

Requested(target) == { i \in 1..Len(stateReqs) : stateReqs[i].target = target }

\* the pipeline has been asked to play and has not been asked to stop
Streaming ==
    /\ Alive
    /\ Requested("Playing") # {}
    /\ Requested("Null") = {}

\* runtime events so far: messages posted and pads exposed
Events == posted + Cardinality({ p \in Pads : hpc[p] # "none" })

\* (variant: the result of set_state(Playing) is dropped and main enters the loop)
SetStatePlaying_Unchecked ==
    /\ pc = "play"
    /\ \E ok \in BOOLEAN :
         /\ stateReqs' = Append(stateReqs, Req("Playing", ok))
         /\ pipeState' = IF ok THEN "Playing" ELSE pipeState
         /\ Goto("loop")
    /\ UNCHANGED <<args, envv, buildVars, handlerRegs, runVars, handlerVars, log>>

\* pipeline.set_state(gst::State::Playing)?; let bus = pipeline.bus().unwrap();
SetStatePlaying ==
    /\ pc = "play"
    /\ \E ok \in BOOLEAN :
         /\ stateReqs' = Append(stateReqs, Req("Playing", ok))
         /\ IF ok THEN pipeState' = "Playing" /\ Goto("loop")
                  ELSE pipeState' = pipeState /\ Fail("set_state")
    /\ UNCHANGED <<args, envv, buildVars, handlerRegs, runVars, handlerVars, log>>

\* the runtime posts a message to the bus of the playing pipeline
BusPost ==
    /\ Streaming
    /\ posted < MaxPosted
    /\ Events < MaxEvents
    /\ \E m \in Messages : bus' = Append(bus, m)
    /\ posted' = posted + 1
    /\ UNCHANGED <<args, envv, pc, exitCode, failure, buildVars, handlerRegs,
                   stateReqs, pipeState, consumed, loopEnd, handlerVars, log>>

\* one iteration of `for msg in bus.iter_timed(NONE)`: pop the head, run the arm
\* of `match msg.view()` it selects; `break` leaves the loop for set_state(Null)
Iterate(kinds, lines, break, why) ==
    /\ pc = "loop"
    /\ bus # << >>
    /\ Head(bus).kind \in kinds
    /\ bus' = Tail(bus)
    /\ consumed' = Append(consumed, Head(bus))
    /\ log' = log \o lines
    /\ loopEnd' = IF break THEN why ELSE loopEnd
    /\ pc' = IF break THEN "set_null" ELSE "loop"
    /\ UNCHANGED <<args, envv, exitCode, failure, buildVars, handlerRegs,
                   stateReqs, pipeState, posted, handlerVars>>

MatchedKinds == {"Error", "Warning", "Info", "Eos"}
AllKinds == { m.kind : m \in Messages }

\* (variant: the Error arm without its break)
LoopError_NoBreak == Iterate({"Error"}, gst_log("error", Head(bus)), FALSE, "none")

\* MessageView::Error(err) => { gst_error!(err); break; }
LoopError == Iterate({"Error"}, gst_log("error", Head(bus)), TRUE, "error")

\* (variant: the Warning arm breaks out of the loop like the Error arm)
LoopWarning_Break == Iterate({"Warning"}, gst_log("warn", Head(bus)), TRUE, "error")

\* MessageView::Warning(warning) => { gst_warn!(warning); }
LoopWarning == Iterate({"Warning"}, gst_log("warn", Head(bus)), FALSE, "none")

\* MessageView::Info(info) => { gst_info!(info); }
LoopInfo == Iterate({"Info"}, gst_log("info", Head(bus)), FALSE, "none")

\* (variant: the Eos arm without its break)
LoopEos_NoBreak ==
    Iterate({"Eos"}, << Line("error", "Received EOS", <<>>) >>, FALSE, "none")

\* MessageView::Eos(..) => { log::error!("Received EOS"); break; }
LoopEos == Iterate({"Eos"}, << Line("error", "Received EOS", <<>>) >>, TRUE, "eos")

\* _ => {}
LoopOther == Iterate(AllKinds \ MatchedKinds, << >>, FALSE, "none")

\* (variant: main returns Ok(()) as soon as the iterator is exhausted)
LoopClosed_Return ==
    /\ pc = "loop"
    /\ bus = << >>
    /\ pc' = "exited"
    /\ exitCode' = 0
    /\ loopEnd' = "closed"
    /\ UNCHANGED <<args, envv, failure, buildVars, handlerRegs, stateReqs,
                   pipeState, bus, posted, consumed, handlerVars, log>>

\* the iterator returns None: the for loop ends without a break
LoopClosed ==
    /\ pc = "loop"
    /\ bus = << >>
    /\ pc' = "set_null"
    /\ loopEnd' = "closed"
    /\ UNCHANGED <<args, envv, exitCode, failure, buildVars, handlerRegs, stateReqs,
                   pipeState, bus, posted, consumed, handlerVars, log>>

\* (variant: a run ended by an Error message exits with the failure code)
SetStateNull_ErrorExit ==
    /\ pc = "set_null"
    /\ \E ok \in BOOLEAN :
         /\ stateReqs' = Append(stateReqs, Req("Null", ok))
         /\ pipeState' = IF ok THEN "Null" ELSE pipeState
         /\ pc' = "exited"
         /\ exitCode' = MainExit(ok /\ loopEnd # "error")
         /\ failure' = IF ok THEN failure ELSE "set_state"
    /\ UNCHANGED <<args, envv, buildVars, handlerRegs, runVars, handlerVars, log>>

\* pipeline.set_state(gst::State::Null)?; Ok(())
SetStateNull ==
    /\ pc = "set_null"
    /\ \E ok \in BOOLEAN :
         /\ stateReqs' = Append(stateReqs, Req("Null", ok))
         /\ pipeState' = IF ok THEN "Null" ELSE pipeState
         /\ pc' = "exited"
         /\ exitCode' = MainExit(ok)
         /\ failure' = IF ok THEN failure ELSE "set_state"
    /\ UNCHANGED <<args, envv, buildVars, handlerRegs, runVars, handlerVars, log>>

Controller ==
    \/ SetStatePlaying
    \/ LoopError \/ LoopWarning \/ LoopInfo \/ LoopEos \/ LoopOther \/ LoopClosed
    \/ SetStateNull

----------------------------------------------------------------------------
(* The pad-added closure, one invocation per pad the source exposes *)

Call(p, outcome) ==
    [pad |-> p, caps |-> caps[p], seen |-> hseen[p], outcome |-> outcome]

\* (variant: the test is made on the new source pad, which has no peer yet)
is_linked_SrcPad == FALSE

\* sink_pad.is_linked()
is_linked == sinkPeer # {}

\* (variant: the "media" field is not tested)
Accepts_AnyRtp(c) == c.name = "application/x-rtp"

\* new_pad_struct.name() == "application/x-rtp"
\*   && new_pad_struct.get("media").map_or(false, |m: String| m == "video")
Accepts(c) == c.name = "application/x-rtp" /\ c.media = "video"

\* (variant: a link that does not look at the sink pad's peer)
PadLink_NoPeerCheck(peers, p, rt) ==
    IF rt THEN [ok |-> TRUE, peers |-> peers \cup {p}]
          ELSE [ok |-> FALSE, peers |-> peers]

\* gst_pad_link(src_pad, sink_pad): refuses a sink pad that has a peer; rt is
\* whether the runtime finds the two pads compatible
PadLink(peers, p, rt) ==
    IF peers = {} /\ rt THEN [ok |-> TRUE, peers |-> {p}]
                        ELSE [ok |-> FALSE, peers |-> peers]

\* a panic inside the closure, called from the runtime's C code, ends the process
Panic ==
    /\ pc' = "exited"
    /\ exitCode' = 134
    /\ failure' = "panic"

\* the source emits pad-added for a new pad p; the closure logs, fetches the
\* depayloader's sink pad and returns if it is linked
PadAdded(p) ==
    /\ Streaming
    /\ Events < MaxEvents
    /\ handlerRegs > 0
    /\ hpc[p] = "none"
    /\ IF p = 1 THEN TRUE ELSE hpc[p - 1] # "none"
    /\ hseen' = [hseen EXCEPT ![p] = Len(calls)]
    /\ \E c \in PadCaps :
         /\ caps' = [caps EXCEPT ![p] = c]
         /\ calls' = IF is_linked
                        THEN Append(calls, [pad |-> p, caps |-> c, seen |-> Len(calls),
                                            outcome |-> "already_linked"])
                        ELSE calls
    /\ IF is_linked
          THEN /\ hlog' = [hlog EXCEPT ![p] =
                             << Line("info", "Received new pad", <<"source", PadName(p)>>),
                                Line("info", "Already linked; ignoring", <<>>) >>]
               /\ hpc' = [hpc EXCEPT ![p] = "returned"]
          ELSE /\ hlog' = [hlog EXCEPT ![p] =
                             << Line("info", "Received new pad", <<"source", PadName(p)>>) >>]
               /\ hpc' = [hpc EXCEPT ![p] = "caps"]
    /\ UNCHANGED <<args, envv, pc, exitCode, failure, buildVars, handlerRegs,
                   stateReqs, pipeState, runVars, sinkPeer, log>>

\* (variant: `if let Some(caps) = src_pad.current_caps()`, a pad without caps
\* is skipped quietly)
ReadCaps_Lenient(p) ==
    /\ Alive
    /\ hpc[p] = "caps"
    /\ IF ~caps[p].present \/ caps[p].structs = 0 \/ ~Accepts(caps[p])
          THEN /\ hpc' = [hpc EXCEPT ![p] = "returned"]
               /\ calls' = Append(calls, Call(p, "ignored"))
          ELSE hpc' = [hpc EXCEPT ![p] = "link"] /\ calls' = calls
    /\ UNCHANGED <<args, envv, pc, exitCode, failure, buildVars, handlerRegs,
                   stateReqs, pipeState, runVars, hseen, caps, sinkPeer, log, hlog>>

\* src_pad.current_caps().expect(..); .structure(0).expect(..); the format test
ReadCaps(p) ==
    /\ Alive
    /\ hpc[p] = "caps"
    /\ IF ~caps[p].present \/ caps[p].structs = 0
          THEN /\ Panic
               /\ hpc' = [hpc EXCEPT ![p] = "panicked"]
               /\ calls' = calls
          ELSE /\ UNCHANGED <<pc, exitCode, failure>>
               /\ IF Accepts(caps[p])
                     THEN hpc' = [hpc EXCEPT ![p] = "link"] /\ calls' = calls
                     ELSE /\ hpc' = [hpc EXCEPT ![p] = "returned"]
                          /\ calls' = Append(calls, Call(p, "ignored"))
    /\ UNCHANGED <<args, envv, buildVars, handlerRegs, stateReqs, pipeState,
                   runVars, hseen, caps, sinkPeer, log, hlog>>

\* (variant: src_pad.link(&sink_pad).expect(..), a failed link panics)
LinkPad_Expect(p) ==
    /\ Alive
    /\ hpc[p] = "link"
    /\ \E rt \in BOOLEAN :
         LET r == PadLink(sinkPeer, p, rt) IN
           /\ sinkPeer' = r.peers
           /\ IF r.ok
                 THEN /\ hlog' = [hlog EXCEPT ![p] =
                                    Append(@, Line("info", "Link succeeded", <<>>))]
                      /\ calls' = Append(calls, Call(p, "linked"))
                      /\ hpc' = [hpc EXCEPT ![p] = "returned"]
                      /\ UNCHANGED <<pc, exitCode, failure>>
                 ELSE /\ Panic
                      /\ hpc' = [hpc EXCEPT ![p] = "panicked"]
                      /\ UNCHANGED <<hlog, calls>>
    /\ UNCHANGED <<args, envv, buildVars, handlerRegs, stateReqs, pipeState,
                   runVars, hseen, caps, log>>

\* (variant: a failed link is tried a second time within the invocation)
LinkPad_Retry(p) ==
    /\ Alive
    /\ hpc[p] = "link"
    /\ \E rt1 \in BOOLEAN, rt2 \in BOOLEAN :
         LET r1 == PadLink(sinkPeer, p, rt1)
             r2 == PadLink(sinkPeer, p, rt2)
             failed == Line("error", "Failed to link", <<>>)
             linked == Line("info", "Link succeeded", <<>>)
         IN  IF r1.ok
               THEN /\ sinkPeer' = r1.peers
                    /\ hlog' = [hlog EXCEPT ![p] = Append(@, linked)]
                    /\ calls' = Append(calls, Call(p, "linked"))
               ELSE /\ sinkPeer' = r2.peers
                    /\ hlog' = [hlog EXCEPT ![p] =
                                  @ \o << failed, IF r2.ok THEN linked ELSE failed >>]
                    /\ calls' = Append(calls, Call(p, IF r2.ok THEN "linked"
                                                               ELSE "link_failed"))
    /\ hpc' = [hpc EXCEPT ![p] = "returned"]
    /\ UNCHANGED <<args, envv, pc, exitCode, failure, buildVars, handlerRegs,
                   stateReqs, pipeState, runVars, hseen, caps, log>>

\* match src_pad.link(&sink_pad) { Ok(_) => info, Err(err) => error }
LinkPad(p) ==
    /\ Alive
    /\ hpc[p] = "link"
    /\ \E rt \in BOOLEAN :
         LET r == PadLink(sinkPeer, p, rt) IN
           /\ sinkPeer' = r.peers
           /\ hlog' = [hlog EXCEPT ![p] =
                         Append(@, IF r.ok THEN Line("info", "Link succeeded", <<>>)
                                           ELSE Line("error", "Failed to link", <<>>))]
           /\ calls' = Append(calls, Call(p, IF r.ok THEN "linked" ELSE "link_failed"))
    /\ hpc' = [hpc EXCEPT ![p] = "returned"]
    /\ UNCHANGED <<args, envv, pc, exitCode, failure, buildVars, handlerRegs,
                   stateReqs, pipeState, runVars, hseen, caps, log>>

Handler ==
    \E p \in Pads : PadAdded(p) \/ ReadCaps(p) \/ LinkPad(p)

----------------------------------------------------------------------------
(* Properties of the bus loop and of the shutdown *)

Terminal == {"Error", "Eos"}

NullRequests == Cardinality(Requested("Null"))

\* C1: the first Error or Eos message the loop pops is the last message it
\* ever pops: no message is consumed after one, and once one has been consumed
\* main is no longer in the loop.
C1_TerminalIsLast ==
    \A i \in 1..Len(consumed) :
        consumed[i].kind \in Terminal => i = Len(consumed) /\ pc # "loop"

\* a run that ended on Error/Eos and left a later message of the bus unpopped
C1_Witness ==
    /\ pc = "exited"
    /\ consumed # << >>
    /\ consumed[Len(consumed)].kind \in Terminal
    /\ bus # << >>

\* C2: set_state(Null) is requested at most once, only after the loop has
\* ended (by Error, by Eos or by exhaustion of the iterator), and every run in
\* which main returns after the loop ended has requested it exactly once; the
\* three ways of ending the loop all lead to the same request.
C2_NullOnceAfterLoop ==
    /\ NullRequests <= 1
    /\ NullRequests > 0 =>
          /\ loopEnd \in {"error", "eos", "closed"}
          /\ pc = "exited"
          /\ stateReqs[Len(stateReqs)].target = "Null"
    /\ (loopEnd # "none" /\ Alive) => pc = "set_null" /\ NullRequests = 0
    /\ (loopEnd # "none" /\ pc = "exited" /\ failure # "panic") => NullRequests = 1

\* a run whose loop ended because the bus iterator ended, Null requested once
C2_Witness ==
    /\ pc = "exited"
    /\ loopEnd = "closed"
    /\ NullRequests = 1

\* C3: popping a message that is neither Error nor Eos leaves main in the loop,
\* requests no state change and leaves the rest of the bus to be popped; main
\* leaves the loop only to request Null, after popping an Error or Eos or on an
\* exhausted iterator (a panic of the pad-added closure ends the whole process).
C3_NonTerminalKeepsRunning ==
    [][ pc = "loop" =>
          /\ (consumed' # consumed /\ Head(bus).kind \notin Terminal) =>
                /\ pc' = "loop"
                /\ exitCode' = exitCode
                /\ stateReqs' = stateReqs
                /\ pipeState' = pipeState
                /\ loopEnd' = loopEnd
                /\ bus' = Tail(bus)
          /\ pc' # "loop" =>
                \/ failure' = "panic"
                \/ /\ pc' = "set_null"
                   /\ \/ consumed' # consumed /\ Head(bus).kind \in Terminal
                      \/ consumed' = consumed /\ bus = << >> /\ loopEnd' = "closed"
      ]_vars

\* an Info message was popped and the loop went on to pop the next message
C3_Witness ==
    /\ Len(consumed) >= 2
    /\ consumed[1].kind = "Info"
    /\ consumed[2].kind = "Warning"
    /\ pc = "loop"

----------------------------------------------------------------------------
(* Properties of the pad-added closure *)

\* the accepted format: media type application/x-rtp carrying video
IsVideoRtp(c) == c.present /\ c.name = "application/x-rtp" /\ c.media = "video"

\* pairs of finished invocations, the second begun after the first returned
Successive ==
    { ij \in (1..Len(calls)) \X (1..Len(calls)) :
        ij[1] < ij[2] /\ calls[ij[2]].seen >= ij[1] }

Attempted(c) == c.outcome \in {"linked", "link_failed"}

ErrorLines(lines) == { i \in 1..Len(lines) : lines[i].level = "error" }

AlreadyLinkedLog(p) ==
    << Line("info", "Received new pad", <<"source", PadName(p)>>),
       Line("info", "Already linked; ignoring", <<>>) >>

\* C4 as stated: after two successive invocations with video/RTP pads, exactly
\* one link exists on the depayloader's sink pad and the second invocation was
\* the "already linked" no-op.
C4_TwoVideoCallsOneLink ==
    \A ij \in Successive :
        (IsVideoRtp(calls[ij[1]].caps) /\ IsVideoRtp(calls[ij[2]].caps)) =>
            /\ Cardinality(sinkPeer) = 1
            /\ calls[ij[2]].outcome = "already_linked"

\* C4 amended: after two successive invocations with video/RTP pads of which
\* the first linked its pad, exactly one link exists on the depayloader's sink
\* pad (the first one's), and the second invocation made no attempt, linked
\* nothing and logged "Already linked".
C4_SecondCallAfterLinkIsNoOp ==
    \A ij \in Successive :
        (/\ IsVideoRtp(calls[ij[1]].caps)
         /\ IsVideoRtp(calls[ij[2]].caps)
         /\ calls[ij[1]].outcome = "linked") =>
            /\ sinkPeer = {calls[ij[1]].pad}
            /\ calls[ij[2]].outcome = "already_linked"
            /\ ~Attempted(calls[ij[2]])
            /\ hlog[calls[ij[2]].pad] = AlreadyLinkedLog(calls[ij[2]].pad)

\* two successive video/RTP invocations: the first linked, the second a no-op
C4_Witness ==
    /\ Len(calls) >= 2
    /\ IsVideoRtp(calls[1].caps) /\ calls[1].outcome = "linked"
    /\ IsVideoRtp(calls[2].caps) /\ calls[2].outcome = "already_linked"
    /\ calls[2].seen >= 1

\* C5: a link is attempted only for a pad whose caps are video/RTP, and is
\* attempted for every such pad whose invocation found the sink pad unlinked;
\* an invocation returns as "already linked" only when the sink pad has a peer;
\* a pad with any other caps is never linked, gets no attempt and no error line.
C5_FormatFilter ==
    /\ \A p \in Pads : hpc[p] = "link" => IsVideoRtp(caps[p])
    /\ \A k \in 1..Len(calls) :
         LET c == calls[k] IN
           /\ Attempted(c) => IsVideoRtp(c.caps)
           /\ (IsVideoRtp(c.caps) /\ c.outcome # "already_linked") => Attempted(c)
           /\ c.outcome = "already_linked" => sinkPeer # {}
           /\ (c.caps.present /\ ~IsVideoRtp(c.caps)) =>
                 /\ c.outcome \in {"ignored", "already_linked"}
                 /\ c.pad \notin sinkPeer
                 /\ ErrorLines(hlog[c.pad]) = {}

\* an audio/RTP pad was ignored while the sink pad was, and stays, unlinked
C5_Witness ==
    /\ sinkPeer = {}
    /\ \E k \in 1..Len(calls) :
         /\ calls[k].caps = Caps("application/x-rtp", "audio")
         /\ calls[k].outcome = "ignored"

\* C6: the step in which src_pad.link fails logs an error line and changes
\* nothing else: the sink pad's peers, the pipeline state, the state requests,
\* the position of main (still in its loop if it was), the bus and the process
\* (no exit) are as before.
C6_FailedLinkNotFatal ==
    [][ \A p \in Pads :
          (hpc[p] = "link" /\ hpc'[p] # "link" /\ p \notin sinkPeer') =>
             /\ hpc'[p] = "returned"
             /\ hlog'[p] = Append(hlog[p], Line("error", "Failed to link", <<>>))
             /\ sinkPeer' = sinkPeer
             /\ pipeState' = pipeState
             /\ stateReqs' = stateReqs
             /\ pc' = pc
             /\ exitCode' = exitCode
             /\ bus' = bus /\ consumed' = consumed
      ]_vars

\* a link has failed, the sink pad is unlinked, and main is in its loop with a
\* message to pop
C6_Witness ==
    /\ \E k \in 1..Len(calls) : calls[k].outcome = "link_failed"
    /\ sinkPeer = {}
    /\ pc = "loop"
    /\ bus # << >>
    /\ Alive

----------------------------------------------------------------------------
(* Properties of the process exit *)

MainReturned == pc = "exited" /\ failure # "panic"

LastReq == stateReqs[Len(stateReqs)]

\* C7 as stated: once the loop has ended and Null has been requested, the exit
\* code is the one of a run whose Null request succeeded (main returns Ok(())),
\* whether or not this run's request succeeded.
C7_ExitUnaffectedByNullFailure ==
    (MainReturned /\ NullRequests > 0) => exitCode = MainExit(TRUE)

\* C8: a run that was set to Playing, whose loop ended on Eos or Error and
\* whose cleanup transition to Null went through, has requested exactly
\* Playing then Null, is stopped (pipeline in Null, main returned) and exits 0.
C8_CleanShutdownExitsZero ==
    (pc = "exited" /\ loopEnd \in {"error", "eos"} /\ failure = "none") =>
        /\ stateReqs = << Req("Playing", TRUE), Req("Null", TRUE) >>
        /\ pipeState = "Null"
        /\ exitCode = 0

\* playback, a video pad linked after Playing, then Eos: stopped with exit 0
C8_Witness ==
    /\ args.command = "PlayBack"
    /\ sinkPeer # {}
    /\ loopEnd = "eos"
    /\ pc = "exited"
    /\ exitCode = 0

\* the loop ended on an Error message posted by the element "source"
SourceErrorRun ==
    /\ loopEnd = "error"
    /\ consumed # << >>
    /\ consumed[Len(consumed)].src = "source"

\* the log holds an error line whose context names "source"
SourceErrorLogged ==
    \E i \in ErrorLines(log) :
        \E j \in 1..Len(log[i].ctx) : log[i].ctx[j] = "source"

\* C9 as stated: on an Error from "source" the error is logged with "source"
\* as context, nothing more is popped, Null is requested and the process exits
\* nonzero.
C9_SourceErrorExitsNonzero ==
    SourceErrorRun =>
        /\ SourceErrorLogged
        /\ consumed[Len(consumed)].kind = "Error" /\ pc # "loop"
        /\ MainReturned => NullRequests = 1 /\ exitCode # 0

\* C9 amended: on an Error from "source" the error is logged with "source" as
\* context, nothing more is popped, Null is requested, and the process exits 0
\* when the Null request succeeds (with the failure code only when it fails).
C9_SourceErrorExitsZero ==
    SourceErrorRun =>
        /\ SourceErrorLogged
        /\ consumed[Len(consumed)].kind = "Error" /\ pc # "loop"
        /\ MainReturned =>
              /\ NullRequests = 1
              /\ exitCode = (IF LastReq.ok THEN 0 ELSE 1)

\* an Error from "source" ended the run with a later message left on the bus
C9_Witness ==
    /\ SourceErrorRun
    /\ MainReturned
    /\ LastReq = Req("Null", TRUE)
    /\ exitCode = 0
    /\ bus # << >>

StartupFailures ==
    {"gst_init", "create", "property", "add_many", "link_many", "missing_stream_name"}

Chain == IF args.command = "PlayBack" THEN PlaybackChain ELSE KvsChain

\* everything main builds before it registers the closure
BuildComplete ==
    /\ created = {"source"} \cup { Chain[i] : i \in 1..Len(Chain) }
    /\ added = created
    /\ links = { <<Chain[i], Chain[i + 1]>> : i \in 1..(Len(Chain) - 1) }
    /\ args.rtsp_config.url # None => <<"source", "url", args.rtsp_config.url>> \in props
    /\ args.command = "Kvs" =>
          <<"kvssink", "stream-name", args.kvs_config.stream_name>> \in props

\* C10: a run in which a creation, a property assignment, add_many, link_many,
\* the stream-name lookup or gst::init failed has exited with a nonzero code
\* without registering the closure, requesting any state or popping a message;
\* and the closure is registered, Playing requested, only on a complete build.
C10_StartupFailureAborts ==
    /\ failure \in StartupFailures =>
          /\ pc = "exited"
          /\ exitCode \notin {0, NoExit}
          /\ handlerRegs = 0
          /\ stateReqs = << >>
          /\ consumed = << >> /\ bus = << >>
          /\ \A p \in Pads : hpc[p] = "none"
    /\ (handlerRegs > 0 \/ stateReqs # << >>) => BuildComplete

\* add_many failed: the process has exited with code 1 before the loop
C10_Witness ==
    /\ failure = "add_many"
    /\ pc = "exited"
    /\ exitCode = 1
    /\ handlerRegs = 0

----------------------------------------------------------------------------
(* Properties of the cloud-ingestion assembly *)

SinkProps == { t \in props : t[1] = "kvssink" }

StreamNameProps == { t \in SinkProps : t[2] = "stream-name" }

\* C11 as stated: the stream-name lookup fails only when the name is absent
\* from the command line and from KVS_STREAM_NAME; with the name absent from
\* the command line and the variable set, the sink's stream-name property is
\* set to the variable's value; a failing run pops no message.
C11_StreamNameEnvFallback ==
    /\ failure = "missing_stream_name" =>
          /\ args.kvs_config.stream_name = None
          /\ envv["KVS_STREAM_NAME"] = None
          /\ consumed = << >> /\ stateReqs = << >>
    /\ (/\ args.command = "Kvs"
        /\ args.kvs_config.stream_name = None
        /\ envv["KVS_STREAM_NAME"] # None
        /\ pc \notin {"gst_init", "src_create", "src_url", "src_user", "src_pw",
                      "depay_create", "kvs_parse", "kvs_sink", "kvs_access",
                      "kvs_secret", "kvs_name"}
        /\ failure \notin {"gst_init", "create", "property"}) =>
          StreamNameProps = {<<"kvssink", "stream-name", envv["KVS_STREAM_NAME"]>>}

\* C12 as stated: when the stream-name lookup fails, neither h264parse nor
\* kvssink has been created, no property has been set on kvssink and nothing
\* has been added to the pipeline.
C12_MissingNameBeforeAnyStage ==
    failure = "missing_stream_name" =>
        /\ "h264parse" \notin created
        /\ "kvssink" \notin created
        /\ SinkProps = {}
        /\ added = {}

\* C12 amended: when the stream-name lookup fails, nothing has been added to
\* the pipeline and nothing linked, and kvssink has no stream-name and no
\* aws-region property; h264parse and kvssink have been created, and kvssink
\* carries the access-key and secret-key given on the command line.
C12_MissingNameBeforeAddAndLink ==
    failure = "missing_stream_name" =>
        /\ added = {}
        /\ links = {}
        /\ created = {"source", "rtph264depay", "h264parse", "kvssink"}
        /\ SinkProps =
             { t \in { <<"kvssink", "access-key", args.kvs_config.aws_access_key_id>>,
                       <<"kvssink", "secret-key", args.kvs_config.aws_secret_key>> } :
                 t[3] # None }

\* the lookup failed with both stages created and the keys set on kvssink
C12_Witness ==
    /\ failure = "missing_stream_name"
    /\ {"h264parse", "kvssink"} \subseteq created
    /\ <<"kvssink", "access-key", "cli">> \in SinkProps
    /\ added = {}

PadsExposed == { p \in Pads : hpc[p] # "none" }

\* C13: connect_pad_added is called at most once, only on a complete build
\* (every stage created and added, the chain from rtph264depay to the sink
\* linked); Playing is requested only after it; and the closure runs for a pad
\* only in a run with that one registration and the static chain in place.
C13_RegisteredOnceAfterBuild ==
    /\ handlerRegs <= 1
    /\ handlerRegs = 1 =>
          /\ BuildComplete
          /\ pc \in {"play", "loop", "set_null", "exited"}
    /\ stateReqs # << >> => handlerRegs = 1
    /\ pc \in {"play", "loop", "set_null"} => handlerRegs = 1
    /\ PadsExposed # {} =>
          /\ handlerRegs = 1
          /\ links = { <<Chain[i], Chain[i + 1]>> : i \in 1..(Len(Chain) - 1) }
          /\ Requested("Playing") # {}

\* the closure runs for a pad of a cloud-ingestion pipeline, chain in place
C13_Witness ==
    /\ args.command = "Kvs"
    /\ handlerRegs = 1
    /\ PadsExposed # {}
    /\ <<"h264parse", "kvssink">> \in links

----------------------------------------------------------------------------
(* Properties of concurrent invocations, of the links and of the lifecycle *)

\* C15: whatever the interleaving of the invocations (each tests is_linked,
\* then later calls link, with nothing held in between), rtph264depay's sink
\* pad has at most one peer, and at most one invocation has linked its pad.
C15_AtMostOnePeer ==
    /\ Cardinality(sinkPeer) <= 1
    /\ Cardinality({ k \in 1..Len(calls) : calls[k].outcome = "linked" }) <= 1

\* an invocation that found the sink pad unlinked is about to call link while
\* another invocation has linked its pad in between
C15_Witness ==
    \E p \in Pads, q \in Pads :
        /\ p # q
        /\ hpc[p] = "link"
        /\ sinkPeer = {q}

ChainMembers == {"source"} \cup { Chain[i] : i \in 1..Len(Chain) }

\* C16: both ends of every static link are members of the pipeline, and by the
\* time any link exists the source, rtph264depay and the whole chain of the
\* selected strategy have been added; the link made by the closure joins a pad
\* of the source to rtph264depay's sink pad, both elements being members.
C16_LinksJoinMembers ==
    /\ \A l \in links : l[1] \in added /\ l[2] \in added
    /\ links # {} => added = ChainMembers
    /\ sinkPeer # {} => {"source", "rtph264depay"} \subseteq added

\* a playback pipeline, fully linked, whose source pad has been linked late
C16_Witness ==
    /\ args.command = "PlayBack"
    /\ Cardinality(links) = 4
    /\ sinkPeer # {}
    /\ Alive

AttemptLines(p) ==
    { i \in 1..Len(hlog[p]) : hlog[p][i].text \in {"Link succeeded", "Failed to link"} }

\* C17: an invocation calls link at most once (at most one result line in its
\* log, one record per pad); a pad whose link failed is not a peer of the sink
\* pad; and an invocation for a video/RTP pad that begins while no earlier
\* invocation has linked (in particular after a failed one) makes its attempt.
C17_OneAttemptPerCall ==
    /\ \A p \in Pads :
         /\ Cardinality(AttemptLines(p)) <= 1
         /\ Cardinality({ k \in 1..Len(calls) : calls[k].pad = p }) <= 1
    /\ \A k \in 1..Len(calls) :
         /\ calls[k].outcome = "link_failed" => calls[k].pad \notin sinkPeer
         /\ (/\ IsVideoRtp(calls[k].caps)
             /\ \A i \in 1..calls[k].seen : calls[i].outcome # "linked") =>
               Attempted(calls[k])

\* a first invocation failed to link and a later one linked its own pad
C17_Witness ==
    /\ Len(calls) >= 2
    /\ calls[1].outcome = "link_failed"
    /\ calls[2].seen >= 1
    /\ calls[2].outcome = "linked"

\* C18: an invocation panics only for a pad without caps, and then the process
\* is aborted with a nonzero code, the invocation has not returned and has made
\* no link attempt; an invocation for a pad without caps returns only as the
\* "already linked" no-op, and never reaches the link call.
C18_LinkedCheckBeforeCaps ==
    /\ \A p \in Pads :
         /\ hpc[p] = "panicked" =>
               /\ ~caps[p].present
               /\ failure = "panic" /\ pc = "exited" /\ exitCode \notin {0, NoExit}
               /\ p \notin sinkPeer
               /\ AttemptLines(p) = {}
               /\ \A k \in 1..Len(calls) : calls[k].pad # p
         /\ hpc[p] = "link" => caps[p].present
         /\ (hpc[p] = "returned" /\ ~caps[p].present) =>
               hlog[p] = AlreadyLinkedLog(p)
    /\ \A k \in 1..Len(calls) :
         ~calls[k].caps.present =>
             /\ calls[k].outcome = "already_linked"
             /\ \E i \in 1..calls[k].seen : calls[i].outcome = "linked"

\* a pad without caps arrived after the sink pad was linked: a no-op
C18_Witness ==
    \E k \in 1..Len(calls) :
        /\ calls[k].caps = NoCaps
        /\ calls[k].outcome = "already_linked"
        /\ Alive

\* a pad without caps arrived while the sink pad was unlinked: a panic
C18_PanicReached ==
    \E p \in Pads : hpc[p] = "panicked" /\ sinkPeer = {}

Lifecycle == << "Playing", "Null" >>

\* C19: the state requests of a run are Playing, then Null, each at most once;
\* Null is requested only after a Playing request that succeeded; a run whose
\* Playing request failed has exited with a nonzero code with no Null request
\* and no message popped.
C19_LifecyclePrefix ==
    /\ Len(stateReqs) <= Len(Lifecycle)
    /\ \A i \in 1..Len(stateReqs) : stateReqs[i].target = Lifecycle[i]
    /\ NullRequests > 0 => stateReqs[1].ok
    /\ (stateReqs # << >> /\ ~stateReqs[1].ok) =>
          /\ Len(stateReqs) = 1
          /\ pc = "exited"
          /\ exitCode \notin {0, NoExit}
          /\ consumed = << >>
          /\ loopEnd = "none"

\* the Playing request failed and the process has exited with code 1
C19_Witness ==
    /\ stateReqs = << Req("Playing", FALSE) >>
    /\ pc = "exited"
    /\ exitCode = 1

----------------------------------------------------------------------------
Next == Startup \/ Controller \/ BusPost \/ Handler

Spec == Init /\ [][Next]_vars

----------------------------------------------------------------------------
(* Termination of main *)

\* the steps main takes on its own: everything but the end of the bus
\* iterator, which is the runtime's doing
MainStep ==
    \/ Startup
    \/ SetStatePlaying
    \/ LoopError \/ LoopWarning \/ LoopInfo \/ LoopEos \/ LoopOther
    \/ SetStateNull

\* runs with every option given on the command line and an empty environment,
\* one per subcommand
ExplicitInit ==
    /\ Init
    /\ args.rtsp_config.url # None
    /\ args.command = "Kvs" => args.kvs_config.stream_name # None
    /\ \A n \in EnvNames : envv[n] = None

\* the main thread is scheduled: a step it can take is eventually taken; the
\* runtime is free to post nothing, expose no pad and never end the iterator
FairSpec == ExplicitInit /\ [][Next]_vars /\ WF_vars(MainStep)

\* an Error or Eos message is waiting on the bus of the running loop
TerminalPending ==
    /\ pc = "loop"
    /\ \E i \in 1..Len(bus) : bus[i].kind \in Terminal

Stopped == pc = "exited" /\ NullRequests = 1 /\ loopEnd # "none"

\* C14: once an Error or Eos is on the bus of the running loop, or the loop
\* has ended (iterator exhausted included), main eventually requests Null and
\* the process is stopped (unless a panic of the pad-added closure aborts the
\* process first); and no step takes main out of the loop except popping an
\* Error or Eos or the end of the iterator: nothing else, no timeout, ends
\* the wait.
C14_TerminatesOnlyOnTerminal ==
    /\ (TerminalPending \/ (loopEnd # "none" /\ Alive))
          ~> (Stopped \/ failure = "panic")
    /\ [][ (pc = "loop" /\ pc' # "loop" /\ failure' # "panic") =>
             \/ /\ bus # << >>
                /\ Head(bus).kind \in Terminal
                /\ consumed' = Append(consumed, Head(bus))
             \/ bus = << >> /\ loopEnd' = "closed"
         ]_vars

\* two messages were popped, the second an Eos, and the process is stopped
C14_Witness ==
    /\ Stopped
    /\ Len(consumed) = 2
    /\ consumed[1].kind = "StateChanged"
    /\ consumed[2].kind = "Eos"
====
